---- MODULE Spec2Model ----
(***************************************************************************)
(* A model of the GameRoom durable object of canvasclash                   *)
(* (src/functions/gameroom.mjs; src/worker.js holds an older copy of the   *)
(* same class whose message listener differs).                             *)
(*                                                                         *)
(* One action per event handler of the class: fetch (a connection          *)
(* attempt), the message listener, the close/error listener, the interval  *)
(* callback, and the constructor run at the next activation.  Every        *)
(* handler runs to completion before the next event is delivered.          *)
(***************************************************************************)
EXTENDS Integers, Sequences, FiniteSets, TLC

\* ------------------------------------------------------------------ bounds
\* The source uses a 100 x 100 canvas, 8 seats, a 300 s game.
CANVAS_WIDTH == 2
CANVAS_HEIGHT == 1
MAX_PLAYERS_PER_ROOM == 2
GAME_DURATION_SECONDS == 2
\* Score tables of the final accounting: up to WinnerColors entries with
\* scores 0 .. MaxScore.
WinnerColors == 3
MaxScore == 6
\* Date.now() advances by TimeStep between events, MaxSteps times.
TimeStep == 1000
MaxSteps == 1
\* At most MaxDead sockets are dead (send() throws) at a time.
MaxDead == 1

\* --------------------------------------------------------------- constants
MIN_PLAYERS_TO_START == 2
COOLDOWN_MS == 1000
SAVE_EVERY == 10
MaxNow == COOLDOWN_MS + MaxSteps * TimeStep

Palette == << "#FF0000", "#00FF00", "#0000FF", "#FFFF00",
              "#FF00FF", "#00FFFF", "#FFA500", "#800080" >>
\* The palette has as many colours as the room has seats (8 and 8).
PLAYER_COLORS == SubSeq(Palette, 1, MAX_PLAYERS_PER_ROOM)
\* Math.random() fallback of assignColor: lower-case hex, never a palette
\* entry (upper case) and never "#FFFFFF" (the largest value is fffffe).
RandomColors == { "#0a0b0c" }
WHITE == "#FFFFFF"
Undefined == "undefined"
Null == "null"
\* timeLeft: null of the gameState message
NullTime == -1

(***************************************************************************)
(* Coordinates.  A JS number is kept in half units (h = 2 * value), so that *)
(* 0.5 is h = 1; num = FALSE is a value whose typeof is not 'number'.       *)
(***************************************************************************)
Coord(h) == [num |-> TRUE, h |-> h]
NotANumber == [num |-> FALSE, h |-> 0]
\* the fractional values a client sends in this model: 0.5
FracInputs == { 1 }
CoordInputs(size) ==
    { Coord(2 * i) : i \in -1 .. size } \cup { Coord(h) : h \in FracInputs }
        \cup { NotANumber }
\* property keys of one canvas row: the indices 0..W-1 and the non-index
\* keys a fractional x creates
\* the payloads a client sends: every x with a valid y, and every y with a
\* valid x
Payloads ==
    { << x, Coord(2 * j) >> : x \in CoordInputs(CANVAS_WIDTH),
                              j \in 0 .. (CANVAS_HEIGHT - 1) }
    \cup { << Coord(2 * i), y >> : i \in 0 .. (CANVAS_WIDTH - 1),
                                   y \in CoordInputs(CANVAS_HEIGHT) }
RowKeys == { 2 * i : i \in 0 .. (CANVAS_WIDTH - 1) } \cup FracInputs
GridKeys == { 2 * i : i \in 0 .. (CANVAS_WIDTH - 1) }
Rows == { 2 * i : i \in 0 .. (CANVAS_HEIGHT - 1) }

VARIABLES
    canvasState,    \* this.canvasState[y][x]
    scores,         \* this.scores, entries in insertion order
    timeLeft,       \* this.timeLeft
    gameStarted,    \* this.gameStarted
    gameOver,       \* this.gameOver
    timerInterval,  \* this.timerInterval is not null
    timerResolve,   \* this.timerResolve is set (keep-alive promise pending)
    sessions,       \* this.sessions: session objects, in array order
    dead,           \* sockets whose send() threw, close event still to come
    stale,          \* their session objects, where the specification keeps them
    storage,        \* this.state.storage, each key <<>> or <<value>>
    now,            \* Date.now()
    sent,           \* what the last handler sent, in order
    lastOp,         \* the last handler and how it returned
    impl            \* "gameroom" (functions/gameroom.mjs) or "worker"

vars == << canvasState, scores, timeLeft, gameStarted, gameOver,
           timerInterval, timerResolve, sessions, dead, stale, storage,
           now, sent, lastOp, impl >>

\* ------------------------------------------------------------- helpers
RECURSIVE SumSeq(_)
SumSeq(s) == IF s = << >> THEN 0 ELSE s[1].score + SumSeq(Tail(s))

HasScore(sc, c) == \E i \in 1 .. Len(sc) : sc[i].color = c
\* scores[c], with undefined read as 0
ScoreOf(sc, c) ==
    IF HasScore(sc, c)
    THEN (CHOOSE e \in { sc[i] : i \in 1 .. Len(sc) } : e.color = c).score
    ELSE 0
\* scores[c] = v : an existing key keeps its place, a new key goes last
ScoreSet(sc, c, v) ==
    IF HasScore(sc, c)
    THEN [ i \in 1 .. Len(sc) |->
             IF sc[i].color = c THEN [color |-> c, score |-> v] ELSE sc[i] ]
    ELSE Append(sc, [color |-> c, score |-> v])

Max_first(a, b) == a
Max(a, b) == IF a >= b THEN a ELSE b

\* A session object { ws, playerId, color, lastPlacement }.  The registered
\* sessions hold distinct colours, and a message names its receiver by the
\* colour of the receiver's session.
Session(color, lastPlacement) ==
    [color |-> color, lastPlacement |-> lastPlacement]

Msg(to, type, body) == [to |-> to, type |-> type, body |-> body]
Op(op, who, res) == [op |-> op, who |-> who, res |-> res]

initializeCanvas ==
    [ y \in Rows |->
        [ k \in RowKeys |-> IF k \in GridKeys THEN WHITE ELSE Undefined ] ]

EmptyStorage ==
    [ canvasState |-> << >>, scores |-> << >>, timeLeft |-> << >>,
      gameStarted |-> << >>, gameOver |-> << >>,
      gameEndedDueToEmpty |-> << >> ]

\* saveState: the five puts, of the values given
saveState(st, cv, sc, tl, gs, go) ==
    [ st EXCEPT !.canvasState = << cv >>, !.scores = << sc >>,
                !.timeLeft = << tl >>, !.gameStarted = << gs >>,
                !.gameOver = << go >> ]

\* handleSession: this.sessions.length >= MAX_PLAYERS_PER_ROOM
roomFull_off(sess) == Len(sess) > MAX_PLAYERS_PER_ROOM
roomFull_never(sess) == FALSE
roomFull(sess) == Len(sess) >= MAX_PLAYERS_PER_ROOM

\* stopTimer: the interval handle and the keep-alive resolver it leaves;
\* each is cleared (and clearInterval, timerResolve() called) only if set
stopTimer_keepInterval(ti, tr) ==
    [timerInterval |-> ti, timerResolve |-> FALSE]
stopTimer_keepAlive(ti, tr) == [timerInterval |-> FALSE, timerResolve |-> tr]
stopTimer(ti, tr) ==
    [ timerInterval |-> IF ti THEN FALSE ELSE ti,
      timerResolve |-> IF tr THEN FALSE ELSE tr ]

\* message listener: !this.gameStarted || this.gameOver
notActive_never(gs, go) == FALSE
notActive(gs, go) == ~ gs \/ go

\* closeOrErrorHandler: this.sessions.length === 0 && this.gameStarted
roomDrained_never(sess, started) == FALSE
roomDrained(sess, started) == Len(sess) = 0 /\ started

\* handleSession: this.gameOver
gameEnded_never(go) == FALSE
gameEnded(go) == go

\* handleSession: !this.scores[color]
scoreMissing_always(sc, color) == TRUE
scoreMissing(sc, color) == ScoreOf(sc, color) = 0

\* handleSession: !this.gameStarted && this.sessions.length >= MIN_PLAYERS_TO_START
shouldStart_late(started, sess) ==
    ~ started /\ Len(sess) > MIN_PLAYERS_TO_START
shouldStart(started, sess) ==
    ~ started /\ Len(sess) >= MIN_PLAYERS_TO_START

\* startGame: this.state.storage.put('gameStarted', true)
putStarted_lost(st) == st
putStarted(st) == [st EXCEPT !.gameStarted = << TRUE >>]

\* handlePlacePixel: now - session.lastPlacement < COOLDOWN_MS
coolingDown_never(t, session) == t - session.lastPlacement < 0
coolingDown(t, session) == t - session.lastPlacement < COOLDOWN_MS

\* handlePlacePixel: oldColor === newColor
sameColor_never(oldColor, newColor) == FALSE
sameColor(oldColor, newColor) == oldColor = newColor

\* loadState: gameStarted && !gameOver && timeLeft > 0 && !this.timerInterval
shouldResume_never(gs, go, tl, ti) == FALSE
shouldResume(gs, go, tl, ti) == gs /\ ~ go /\ tl > 0 /\ ~ ti

\* assignColor: the first palette colour no registered session holds
usedColors(sess) == { sess[i].color : i \in 1 .. Len(sess) }
assignColor(sess) ==
    IF \E i \in 1 .. Len(PLAYER_COLORS) : PLAYER_COLORS[i] \notin usedColors(sess)
    THEN { PLAYER_COLORS[
             CHOOSE i \in 1 .. Len(PLAYER_COLORS) :
                /\ PLAYER_COLORS[i] \notin usedColors(sess)
                /\ \A j \in 1 .. (i - 1) : PLAYER_COLORS[j] \in usedColors(sess) ] }
    ELSE RandomColors

\* removeSession: filter out the i-th session object
removeSession_all(sess, i) == << >>
removeSession(sess, i) ==
    [ j \in 1 .. (Len(sess) - 1) |-> IF j < i THEN sess[j] ELSE sess[j + 1] ]

\* broadcast: send to every session of the array in order; a send that
\* throws (the sessions at the indices of fail) removes that session, and
\* the forEach goes on over the old array.  A socket whose send throws is
\* dead: it would throw for every later send; its close event is still to
\* come, and its message listener still holds the session object.
\* stale.objs are those session objects where stale.kept says that the
\* specification follows them (dead is their number in every specification).
NoStale == [kept |-> FALSE, objs |-> {}]
staleAfter(st, sess, fail) ==
    IF st.kept
    THEN [st EXCEPT !.objs = @ \cup { sess[i] : i \in fail }]
    ELSE st
staleClosed(st) ==
    IF st.kept
    THEN { [st EXCEPT !.objs = @ \ {s}] : s \in st.objs }
    ELSE {st}
RECURSIVE broadcastKeep(_, _, _)
RECURSIVE broadcastKeep_abort(_, _, _)
broadcastKeep_abort(sess, fail, i) ==
    IF i > Len(sess) \/ i \in fail THEN << >>
    ELSE << sess[i] >> \o broadcastKeep_abort(sess, fail, i + 1)
broadcastKeep(sess, fail, i) ==
    IF i > Len(sess) THEN << >>
    ELSE (IF i \in fail THEN << >> ELSE << sess[i] >>)
            \o broadcastKeep(sess, fail, i + 1)
broadcastSent_none(sess, fail, type, body) == << >>
broadcastSent(sess, fail, type, body) ==
    LET ok == broadcastKeep(sess, fail, 1)
    IN  [ i \in 1 .. Len(ok) |-> Msg(ok[i].color, type, body) ]
\* the sets of registered sessions whose socket may have died since the
\* last event
FailSets ==
    { F \in SUBSET (1 .. Len(sessions)) : Cardinality(F) + dead <= MaxDead }

\* endGame's winner scan over Object.entries(scores)
RECURSIVE winnerScan(_, _, _, _)
RECURSIVE winnerScan_noReset(_, _, _, _)
winnerScan_noReset(sc, winnerColor, highScore, isDraw) ==
    IF sc = << >>
    THEN IF isDraw THEN Null ELSE winnerColor
    ELSE IF sc[1].score > highScore
         THEN winnerScan_noReset(Tail(sc), sc[1].color, sc[1].score, isDraw)
         ELSE IF sc[1].score = highScore
              THEN winnerScan_noReset(Tail(sc), winnerColor, highScore, TRUE)
              ELSE winnerScan_noReset(Tail(sc), winnerColor, highScore, isDraw)
winnerScan(sc, winnerColor, highScore, isDraw) ==
    IF sc = << >>
    THEN IF isDraw THEN Null ELSE winnerColor
    ELSE IF sc[1].score > highScore
         THEN winnerScan(Tail(sc), sc[1].color, sc[1].score, FALSE)
         ELSE IF sc[1].score = highScore
              THEN winnerScan(Tail(sc), winnerColor, highScore, TRUE)
              ELSE winnerScan(Tail(sc), winnerColor, highScore, isDraw)
finalWinner(sc) == winnerScan(sc, Null, -1, FALSE)

\* ------------------------------------------------------------------ Init
\* The first activation of a room: nothing stored, constructor defaults,
\* then loadState over the empty storage.
InitRoom ==
    /\ canvasState = initializeCanvas
    /\ scores = << >>
    /\ timeLeft = GAME_DURATION_SECONDS
    /\ gameStarted = FALSE
    /\ gameOver = FALSE
    /\ timerInterval = FALSE
    /\ timerResolve = FALSE
    /\ sessions = << >>
    /\ dead = 0
    /\ storage = EmptyStorage
    /\ now = COOLDOWN_MS
    /\ sent = << >>
    /\ lastOp = Op("init", "", "ok")

InitCommon == InitRoom /\ stale = NoStale

Init == InitCommon /\ impl = "gameroom"

\* -------------------------------------------------------------- actions
\* JSON.stringify of the canvas keeps the array indices only
JsonCanvas(cv) == [ y \in Rows |-> [ k \in GridKeys |-> cv[y][k] ] ]

\* the colour fetch hands to handleSession: this.assignColor() in
\* functions/gameroom.mjs, url.searchParams.get('color') || this.assignColor()
\* in worker.js, whose entry point forwards the client's query string
QueryColors == { Palette[1] }
assignedColor(sess) ==
    IF impl = "worker"
    THEN QueryColors \cup assignColor(sess)
    ELSE assignColor(sess)

\* fetch + handleSession: a connection attempt
fetch ==
    \E color \in assignedColor(sessions), fail \in FailSets :
        IF roomFull(sessions)
        THEN /\ sent' = << Msg(color, "error", [message |-> "Game room is full."]),
                           Msg(color, "close", [code |-> 1008, reason |-> "Room full"]) >>
             /\ lastOp' = Op("fetch", color, "full")
             /\ UNCHANGED << canvasState, scores, timeLeft, gameStarted,
                             gameOver, timerInterval, timerResolve, sessions,
                             dead, stale, storage, now, impl >>
        ELSE IF gameEnded(gameOver)
        THEN /\ sent' = << Msg(color, "error", [message |-> "Game has already ended."]),
                           Msg(color, "close", [code |-> 1000, reason |-> "Game ended"]) >>
             /\ lastOp' = Op("fetch", color, "ended")
             /\ UNCHANGED << canvasState, scores, timeLeft, gameStarted,
                             gameOver, timerInterval, timerResolve, sessions,
                             dead, stale, storage, now, impl >>
        ELSE LET sess1 == Append(sessions, Session(color, 0))
                 scores1 == IF scoreMissing(scores, color)
                            THEN ScoreSet(scores, color, 0)
                            ELSE scores
                 hello == << Msg(color, "assignInfo", [color |-> color]),
                             Msg(color, "gameState",
                                 [canvasState |-> JsonCanvas(canvasState),
                                  scores |-> scores1,
                                  timeLeft |-> IF gameStarted THEN timeLeft
                                               ELSE NullTime]) >>
                 upd == broadcastSent(sess1, fail, "scoreUpdate",
                                      [scores |-> scores1])
                 sess2 == broadcastKeep(sess1, fail, 1)
                 start == shouldStart(gameStarted, sess2)
             IN  /\ scores' = scores1
                 /\ sessions' = sess2
                 /\ dead' = dead + Cardinality(fail)
                 /\ stale' = staleAfter(stale, sess1, fail)
                 /\ IF start
                    THEN \* startGame, startTimer
                         /\ gameStarted' = TRUE
                         /\ timeLeft' = GAME_DURATION_SECONDS
                         /\ storage' = putStarted(storage)
                         /\ timerInterval' = TRUE
                         /\ timerResolve' = TRUE
                         /\ sent' = hello \o upd \o
                                broadcastSent(sess2, {}, "timerUpdate",
                                    [timeLeft |-> GAME_DURATION_SECONDS])
                         /\ lastOp' = Op("fetch", color, "started")
                    ELSE /\ sent' = hello \o upd
                         /\ lastOp' = Op("fetch", color, "admitted")
                         /\ UNCHANGED << gameStarted, timeLeft, storage,
                                         timerInterval, timerResolve >>
                 /\ UNCHANGED << canvasState, gameOver, now, impl >>

\* typeof v !== 'number' || v < 0 || v >= size
InvalidCoord(v, size) == ~ v.num \/ v.h < 0 \/ v.h >= 2 * size

\* the reply of the listener when the game is not active
notActiveReply(who) ==
    IF impl = "worker"
    THEN << Msg(who, "error", [message |-> "Game not active."]) >>
    ELSE << >>

\* the message listener of the i-th session for a placePixel {x, y}, and
\* handlePlacePixel
onMessage(i, x, y) ==
    /\ i \in 1 .. Len(sessions)
    /\ LET session == sessions[i]
           who == session.color
       IN
       IF notActive(gameStarted, gameOver)
       THEN /\ sent' = notActiveReply(who)
            /\ lastOp' = Op("placePixel", who, "notActive")
            /\ UNCHANGED << canvasState, scores, sessions, dead, stale, storage >>
       ELSE IF InvalidCoord(x, CANVAS_WIDTH) \/ InvalidCoord(y, CANVAS_HEIGHT)
       THEN /\ sent' = << Msg(who, "error", [message |-> "Invalid coordinates."]) >>
            /\ lastOp' = Op("placePixel", who, "invalid")
            /\ UNCHANGED << canvasState, scores, sessions, dead, stale, storage >>
       ELSE IF coolingDown(now, session)
       THEN /\ sent' = << >>
            /\ lastOp' = Op("placePixel", who, "cooldown")
            /\ UNCHANGED << canvasState, scores, sessions, dead, stale, storage >>
       ELSE IF y.h \notin Rows
       THEN \* canvasState[y] is undefined: TypeError, caught by the listener
            /\ sent' = << Msg(who, "error", [message |-> "Invalid message format."]) >>
            /\ lastOp' = Op("placePixel", who, "typeError")
            /\ UNCHANGED << canvasState, scores, sessions, dead, stale, storage >>
       ELSE LET oldColor == canvasState[y.h][x.h]
                newColor == session.color
                dec == IF oldColor # WHITE /\ ScoreOf(scores, oldColor) # 0
                       THEN ScoreSet(scores, oldColor,
                                     Max(0, ScoreOf(scores, oldColor) - 1))
                       ELSE scores
                scores1 == ScoreSet(dec, newColor, ScoreOf(dec, newColor) + 1)
                canvas1 == [canvasState EXCEPT ![y.h][x.h] = newColor]
                sess1 == [sessions EXCEPT ![i].lastPlacement = now]
            IN  IF sameColor(oldColor, newColor)
                THEN /\ sent' = << >>
                     /\ lastOp' = Op("placePixel", who, "same")
                     /\ UNCHANGED << canvasState, scores, sessions, dead, stale,
                                     storage >>
                ELSE \E fail \in FailSets :
                     /\ canvasState' = canvas1
                     /\ scores' = scores1
                     /\ sent' = broadcastSent(sess1, fail, "pixelUpdate",
                                    [x |-> x.h, y |-> y.h, color |-> newColor,
                                     scores |-> scores1])
                     /\ sessions' = broadcastKeep(sess1, fail, 1)
                     /\ dead' = dead + Cardinality(fail)
                     /\ stale' = staleAfter(stale, sess1, fail)
                     /\ storage' = saveState(storage, canvas1, scores1,
                                             timeLeft, gameStarted, gameOver)
                     /\ lastOp' = Op("placePixel", who, "placed")
    /\ UNCHANGED << timeLeft, gameStarted, gameOver, timerInterval,
                    timerResolve, now, impl >>

\* the body of closeOrErrorHandler once removeSession has left sess1
afterRemove(sess1) ==
    /\ sessions' = sess1
    /\ IF roomDrained(sess1, gameStarted)
       THEN \* stopTimer, put gameEndedDueToEmpty
            /\ timerInterval' = stopTimer(timerInterval, timerResolve).timerInterval
            /\ timerResolve' = stopTimer(timerInterval, timerResolve).timerResolve
            /\ storage' = [storage EXCEPT !.gameEndedDueToEmpty = << TRUE >>]
       ELSE UNCHANGED << timerInterval, timerResolve, storage >>
    /\ sent' = << >>
    /\ UNCHANGED << canvasState, scores, timeLeft, gameStarted, gameOver,
                    now, impl >>

\* the close / error listener of the i-th registered session
closeOrErrorHandler(i, ev) ==
    /\ i \in 1 .. Len(sessions)
    /\ afterRemove(removeSession(sessions, i))
    /\ lastOp' = Op(ev, sessions[i].color, "ok")
    /\ UNCHANGED << dead, stale >>

\* the close listener of a socket whose session broadcast has removed:
\* removeSession filters nothing out
closeDead ==
    /\ dead > 0
    /\ dead' = dead - 1
    /\ stale' \in staleClosed(stale)
    /\ afterRemove(sessions)
    /\ lastOp' = Op("close", "", "dead")

\* the setInterval callback of startTimer, and endGame
\* if (this.timeLeft % 10 === 0) this.saveState(), on the decremented value
shouldSave_always(tl) == TRUE
shouldSave(tl) == tl % SAVE_EVERY = 0

timerTick ==
  \E fail \in FailSets :
    /\ timerInterval
    /\ IF timeLeft > 0
       THEN /\ timeLeft' = timeLeft - 1
            /\ sent' = broadcastSent(sessions, fail, "timerUpdate",
                                     [timeLeft |-> timeLeft - 1])
            /\ storage' = IF shouldSave(timeLeft - 1)
                          THEN saveState(storage, canvasState, scores,
                                         timeLeft - 1, gameStarted, gameOver)
                          ELSE storage
            /\ lastOp' = Op("tick", "", "dec")
            /\ UNCHANGED << gameStarted, gameOver, timerInterval,
                            timerResolve >>
       ELSE /\ timerInterval' = stopTimer(timerInterval, timerResolve).timerInterval
            /\ timerResolve' = stopTimer(timerInterval, timerResolve).timerResolve
            /\ gameOver' = TRUE
            /\ gameStarted' = FALSE
            /\ sent' = broadcastSent(sessions, fail, "gameOver",
                           [winnerColor |-> finalWinner(scores),
                            scores |-> scores])
            /\ storage' = saveState(storage, canvasState, scores, timeLeft,
                                    FALSE, TRUE)
            /\ lastOp' = Op("tick", "", "end")
            /\ UNCHANGED timeLeft
    /\ sessions' = broadcastKeep(sessions, fail, 1)
    /\ dead' = dead + Cardinality(fail)
    /\ stale' = staleAfter(stale, sessions, fail)
    /\ UNCHANGED << canvasState, scores, now, impl >>

advanceTime ==
    /\ now + TimeStep <= MaxNow
    /\ now' = now + TimeStep
    /\ sent' = << >>
    /\ lastOp' = Op("env", "", "time")
    /\ UNCHANGED << canvasState, scores, timeLeft, gameStarted, gameOver,
                    timerInterval, timerResolve, sessions, dead, stale, storage,
                    impl >>

\* storage.get(key) || dflt
GetOr(v, dflt) == IF v = << >> THEN dflt ELSE v[1]

\* constructor + loadState over the storage st
restoreFrom(st) ==
    LET gs == GetOr(st.gameStarted, FALSE)
        go == GetOr(st.gameOver, FALSE)
        tl == GetOr(st.timeLeft, GAME_DURATION_SECONDS)
    IN  /\ canvasState' = GetOr(st.canvasState, initializeCanvas)
        /\ scores' = GetOr(st.scores, << >>)
        /\ timeLeft' = tl
        /\ gameStarted' = gs
        /\ gameOver' = go
        \* the constructor has set timerInterval to null; startTimer
        /\ timerInterval' = shouldResume(gs, go, tl, FALSE)
        /\ timerResolve' = shouldResume(gs, go, tl, FALSE)
        /\ sessions' = << >>
        /\ dead' = 0
        /\ stale' = [stale EXCEPT !.objs = {}]
        /\ sent' = << >>
        /\ lastOp' = Op("activate", "", "ok")
        /\ storage' = st
        /\ UNCHANGED << now, impl >>

\* The object is evicted and constructed again: constructor + loadState.
\* Every socket of the old instance is gone.
loadState ==
    LET gs == GetOr(storage.gameStarted, FALSE)
        go == GetOr(storage.gameOver, FALSE)
        tl == GetOr(storage.timeLeft, GAME_DURATION_SECONDS)
    IN  /\ canvasState' = GetOr(storage.canvasState, initializeCanvas)
        /\ scores' = GetOr(storage.scores, << >>)
        /\ timeLeft' = tl
        /\ gameStarted' = gs
        /\ gameOver' = go
        \* the constructor has set timerInterval to null; startTimer
        /\ timerInterval' = shouldResume(gs, go, tl, FALSE)
        /\ timerResolve' = shouldResume(gs, go, tl, FALSE)
        /\ sessions' = << >>
        /\ dead' = 0
        /\ stale' = [stale EXCEPT !.objs = {}]
        /\ sent' = << >>
        /\ lastOp' = Op("activate", "", "ok")
        /\ UNCHANGED << storage, now, impl >>

Next ==
    \/ fetch
    \/ \E i \in 1 .. MAX_PLAYERS_PER_ROOM, p \in Payloads :
          onMessage(i, p[1], p[2])
    \/ \E i \in 1 .. MAX_PLAYERS_PER_ROOM, ev \in {"close", "error"} :
          closeOrErrorHandler(i, ev)
    \/ closeDead
    \/ timerTick
    \/ advanceTime
    \/ loadState

Spec == Init /\ [][Next]_vars

TypeOK ==
    /\ timeLeft \in 0 .. GAME_DURATION_SECONDS
    /\ gameStarted \in BOOLEAN /\ gameOver \in BOOLEAN
    /\ dead \in 0 .. MaxDead


\* ======================================================== properties
ClockState ==
    IF gameOver THEN "Ended" ELSE IF gameStarted THEN "Running" ELSE "Pending"
Cells == { << y, k >> : y \in Rows, k \in GridKeys }
UnsetCells == { p \in Cells : canvasState[p[1]][p[2]] = WHITE }
SessionColors == { sessions[i].color : i \in 1 .. Len(sessions) }
SentTo(who, type) == { i \in 1 .. Len(sent) : sent[i].to = who /\ sent[i].type = type }

\* C1: in every reachable state the sum of all scores plus the number of
\* unset (#FFFFFF) cells equals width * height.
C1_ScoreAccounting ==
    SumSeq(scores) + Cardinality(UnsetCells) = CANVAS_WIDTH * CANVAS_HEIGHT

\* C2: the number of registered sessions never exceeds
\* MAX_PLAYERS_PER_ROOM, whatever the interleaving of connects, disconnects
\* and deregistrations after a failed send.
C2_SessionCap == Len(sessions) <= MAX_PLAYERS_PER_ROOM
\* the room is full and a further connect has just been turned away
C2_Witness ==
    /\ Len(sessions) = MAX_PLAYERS_PER_ROOM
    /\ lastOp.op = "fetch" /\ lastOp.res = "full"


\* C3: the clock only moves forward, Pending -> Running -> Ended: a
\* Running clock never becomes Pending again (whatever the number of
\* sessions, and across a new activation), and an Ended clock stays Ended.
C3_ClockForward ==
    [][ /\ (ClockState = "Running" => ClockState' \in {"Running", "Ended"})
        /\ (ClockState = "Ended" => ClockState' = "Ended") ]_vars
\* the last session has just left a Running game, and the clock is Running
C3_Witness ==
    /\ ClockState = "Running"
    /\ Len(sessions) = 0
    /\ lastOp.op \in {"close", "error"}

\* C4: an admission in the Pending state that leaves at least
\* MIN_PLAYERS_TO_START registered sessions makes the clock Running in that
\* same step, with timeLeft = GAME_DURATION_SECONDS and a live tick, and
\* every registered session (the new one too) is sent
\* timerUpdate(GAME_DURATION_SECONDS); an admission that leaves fewer
\* sessions leaves the clock Pending.
C4_Admitted == lastOp'.op = "fetch" /\ lastOp'.res \in {"admitted", "started"}
C4_AutoStart ==
    [][ (ClockState = "Pending" /\ C4_Admitted) =>
          IF Len(sessions') >= MIN_PLAYERS_TO_START
          THEN /\ ClockState' = "Running"
               /\ timeLeft' = GAME_DURATION_SECONDS
               /\ timerInterval'
               /\ \A i \in 1 .. Len(sessions') :
                    \E k \in 1 .. Len(sent') :
                       /\ sent'[k].to = sessions'[i].color
                       /\ sent'[k].type = "timerUpdate"
                       /\ sent'[k].body.timeLeft = GAME_DURATION_SECONDS
          ELSE /\ ClockState' = "Pending"
               /\ \A k \in 1 .. Len(sent') : sent'[k].type # "timerUpdate" ]_vars
\* the second admission has just started the game
C4_Witness ==
    /\ lastOp.op = "fetch" /\ lastOp.res = "started"
    /\ Len(sessions) = MIN_PLAYERS_TO_START
    /\ ClockState = "Running" /\ timeLeft = GAME_DURATION_SECONDS
    /\ SentTo(lastOp.who, "timerUpdate") # {}


(***************************************************************************)
(* The final accounting on its own.  The canvas of this model is too small *)
(* to carry the score tables of a 100 x 100 game, so the activation starts *)
(* from a Running snapshot whose score table is drawn from ScoreTables; one *)
(* session (the first palette colour) has been admitted, and the last      *)
(* ticks of the game run.                                                  *)
(***************************************************************************)
WinnerPalette == { Palette[i] : i \in 1 .. WinnerColors }
ScoreEntries == [color : WinnerPalette, score : 0 .. MaxScore]
ScoreTables ==
    UNION { { t \in [1 .. n -> ScoreEntries] :
                \A i, j \in 1 .. n : i # j => t[i].color # t[j].color }
            : n \in 1 .. WinnerColors }

InitWinner ==
    /\ canvasState = initializeCanvas
    /\ scores \in { t \in ScoreTables : HasScore(t, Palette[1]) }
    /\ timeLeft \in {0, 1}
    /\ gameStarted = TRUE
    /\ gameOver = FALSE
    /\ timerInterval = TRUE
    /\ timerResolve = TRUE
    /\ sessions = << Session(Palette[1], 0) >>
    /\ dead = 0
    /\ stale = NoStale
    /\ storage = saveState(EmptyStorage, canvasState, scores, 1, TRUE, FALSE)
    /\ now = COOLDOWN_MS
    /\ sent = << >>
    /\ lastOp = Op("fetch", Palette[1], "admitted")
    /\ impl = "gameroom"

NextWinner == timerTick

SpecWinner == InitWinner /\ [][NextWinner]_vars

\* the colour whose score is strictly greater than every other entry's
StrictLeaders(sc) ==
    { e \in { sc[i] : i \in 1 .. Len(sc) } :
        \A f \in { sc[i] : i \in 1 .. Len(sc) } : f # e => e.score > f.score }

\* C5: the winnerColor of every gameOver message is the one colour whose
\* score is strictly greater than every other colour's score, and null when
\* two or more colours share the highest score, whatever the order of the
\* table's entries.
C5_Winner ==
    \A k \in 1 .. Len(sent) :
        sent[k].type = "gameOver" =>
            /\ sent[k].body.scores = scores
            /\ IF StrictLeaders(scores) # {}
               THEN \E e \in StrictLeaders(scores) :
                        sent[k].body.winnerColor = e.color
               ELSE sent[k].body.winnerColor = Null
\* the draw of the spec: two colours at 5, a third at 3, winnerColor null
C5_Witness ==
    /\ scores = << [color |-> Palette[1], score |-> 5],
                   [color |-> Palette[3], score |-> 5],
                   [color |-> Palette[2], score |-> 3] >>
    /\ \E k \in 1 .. Len(sent) :
          sent[k].type = "gameOver" /\ sent[k].body.winnerColor = Null


\* C6: a placement changes the canvas only if at least COOLDOWN_MS have
\* passed since the same session's last placement that changed it (a
\* session's lastPlacement is the time of that placement); a placement
\* inside the cooldown changes neither canvas, scores, sessions nor
\* storage, reaches no other session, and the sender gets nothing back
\* (except the error of a request with invalid coordinates).
C6_Cooldown ==
    [][ /\ lastOp'.op = "placePixel" =>
             \A i \in 1 .. Len(sessions) :
                sessions[i].color = lastOp'.who =>
                   /\ canvasState' # canvasState =>
                         now - sessions[i].lastPlacement >= COOLDOWN_MS
                   /\ now - sessions[i].lastPlacement < COOLDOWN_MS =>
                         /\ UNCHANGED << canvasState, scores, sessions,
                                         storage, timeLeft, gameStarted,
                                         gameOver >>
                         /\ \/ sent' = << >>
                            \/ /\ lastOp'.res = "invalid"
                               /\ \A k \in 1 .. Len(sent') :
                                     /\ sent'[k].to = lastOp'.who
                                     /\ sent'[k].type = "error"
        /\ \A i \in 1 .. Len(sessions), j \in 1 .. Len(sessions') :
              ( /\ sessions[i].color = sessions'[j].color
                /\ sessions[i].lastPlacement # sessions'[j].lastPlacement )
              => /\ lastOp'.op = "placePixel"
                 /\ lastOp'.who = sessions[i].color
                 /\ canvasState' # canvasState
                 /\ sessions'[j].lastPlacement = now
        /\ now' >= now ]_vars
\* a session that has placed a pixel has just been throttled
C6_Witness ==
    /\ lastOp.op = "placePixel" /\ lastOp.res = "cooldown"
    /\ \E i \in 1 .. Len(sessions) :
          /\ sessions[i].color = lastOp.who
          /\ sessions[i].lastPlacement > 0
          /\ now - sessions[i].lastPlacement < COOLDOWN_MS

\* C7: a placePixel on a cell that already holds the sender's colour
\* leaves canvas, scores, the session's lastPlacement (every session) and
\* storage unchanged and broadcasts nothing.
C7_Idempotent ==
    [][ lastOp'.op = "placePixel" =>
        \A i \in 1 .. Len(sessions), p \in Payloads :
          ( /\ sessions[i].color = lastOp'.who
            /\ p[1].num /\ p[1].h \in GridKeys
            /\ p[2].num /\ p[2].h \in Rows
            /\ canvasState[p[2].h][p[1].h] = sessions[i].color
            /\ onMessage(i, p[1], p[2]) )
          => /\ UNCHANGED << canvasState, scores, sessions, storage >>
             /\ \A k \in 1 .. Len(sent') :
                   /\ sent'[k].type = "error"
                   /\ sent'[k].to = sessions[i].color ]_vars
\* a session has just placed its colour on a cell that already held it
C7_Witness ==
    /\ lastOp.op = "placePixel" /\ lastOp.res = "same"
    /\ \E p \in Cells : canvasState[p[1]][p[2]] = lastOp.who
    /\ sent = << >>


\* C8: an activation that restores started = true, over = false and
\* timeLeft = r > 0 leaves the clock Running at r with a live interval;
\* a tick of a clock at r > 0 counts down to r - 1; an admission while the
\* game is started (also one that brings the sessions to two) keeps
\* timeLeft and starts no second interval.
C8_Resume ==
    [][ /\ ( /\ lastOp'.op = "activate"
             /\ storage.gameStarted = << TRUE >>
             /\ storage.gameOver # << TRUE >>
             /\ storage.timeLeft # << >>
             /\ storage.timeLeft[1] > 0 )
           => /\ ClockState' = "Running"
              /\ timeLeft' = storage.timeLeft[1]
              /\ timerInterval'
        /\ (lastOp'.op = "tick" /\ timeLeft > 0) => timeLeft' = timeLeft - 1
        /\ (lastOp'.op = "fetch" /\ gameStarted)
           => /\ timeLeft' = timeLeft
              /\ gameStarted'
              /\ timerInterval' = timerInterval ]_vars
\* an activation has just restored a running game part of whose time is used
C8_Witness ==
    /\ lastOp.op = "activate"
    /\ storage.gameStarted = << TRUE >> /\ storage.gameOver # << TRUE >>
    /\ storage.timeLeft # << >>
    /\ storage.timeLeft[1] \in 1 .. GAME_DURATION_SECONDS - 1
    /\ timeLeft = storage.timeLeft[1]
    /\ ClockState = "Running" /\ timerInterval

\* C9: an admission changes no existing score entry (a colour that is
\* assigned again keeps what it had accumulated; 0 is written only for a
\* colour with no entry), and a disconnect changes no score.
C9_ScoreRetention ==
    [][ /\ lastOp'.op = "fetch" =>
             /\ \A k \in 1 .. Len(scores) :
                   /\ HasScore(scores', scores[k].color)
                   /\ ScoreOf(scores', scores[k].color) = scores[k].score
             /\ lastOp'.res \in {"admitted", "started"} =>
                   /\ HasScore(scores', lastOp'.who)
                   /\ ~ HasScore(scores, lastOp'.who) =>
                         ScoreOf(scores', lastOp'.who) = 0
        /\ lastOp'.op \in {"close", "error"} => scores' = scores ]_vars
\* a new session has just been admitted with a colour that already has points
C9_Witness ==
    /\ lastOp.op = "fetch" /\ lastOp.res \in {"admitted", "started"}
    /\ ScoreOf(scores, lastOp.who) > 0
    /\ \E i \in 1 .. Len(sessions) :
          sessions[i].color = lastOp.who /\ sessions[i].lastPlacement = 0

\* C10: a placePixel received while the clock is not Running is answered
\* with an error message to the sender.
C10_NotRunningRejected ==
    (lastOp.op = "placePixel" /\ ClockState # "Running")
    => SentTo(lastOp.who, "error") # {}


\* an integer in [0, size)
IntegerInRange(v, size) == v.num /\ v.h % 2 = 0 /\ v.h >= 0 /\ v.h < 2 * size

\* C11: while the game is Running, a placePixel whose x or y is not an
\* integer in range (out of range, not a number, or a fraction) is
\* rejected: the sender, and only the sender, is sent an error, and canvas,
\* scores and the sessions' lastPlacement are unchanged.
C11_InvalidRejected ==
    [][ (lastOp'.op = "placePixel" /\ gameStarted /\ ~ gameOver) =>
        \A i \in 1 .. Len(sessions), p \in Payloads :
          ( /\ sessions[i].color = lastOp'.who
            /\ ~ ( /\ IntegerInRange(p[1], CANVAS_WIDTH)
                   /\ IntegerInRange(p[2], CANVAS_HEIGHT) )
            /\ onMessage(i, p[1], p[2]) )
          => /\ UNCHANGED << canvasState, scores, sessions >>
             /\ sent' # << >>
             /\ \A k \in 1 .. Len(sent') :
                   /\ sent'[k].type = "error"
                   /\ sent'[k].to = sessions[i].color ]_vars


\* what a rejected connection is sent before it is closed
RoomFullReply(color) ==
    << Msg(color, "error", [message |-> "Game room is full."]),
       Msg(color, "close", [code |-> 1008, reason |-> "Room full"]) >>
GameEndedReply(color) ==
    << Msg(color, "error", [message |-> "Game has already ended."]),
       Msg(color, "close", [code |-> 1000, reason |-> "Game ended"]) >>
ClockVars == << timeLeft, gameStarted, gameOver, timerInterval, timerResolve >>

\* C12: a connection attempt while MAX_PLAYERS_PER_ROOM sessions are
\* registered is answered with 'Game room is full.' and closed with code
\* 1008; sessions, scores, canvas, clock and storage are unchanged and
\* nothing is sent to a registered session.
C12_RoomFull ==
    [][ (lastOp'.op = "fetch" /\ Len(sessions) >= MAX_PLAYERS_PER_ROOM) =>
          /\ sent' = RoomFullReply(lastOp'.who)
          /\ lastOp'.who \notin SessionColors
          /\ UNCHANGED << sessions, scores, canvasState, ClockVars,
                          storage >> ]_vars
\* a connection attempt on a full room has just been rejected
C12_Witness ==
    /\ lastOp.op = "fetch" /\ lastOp.res = "full"
    /\ Len(sessions) = MAX_PLAYERS_PER_ROOM
    /\ sent = RoomFullReply(lastOp.who)

\* C13 (as amended): once the game is over every connection attempt is
\* rejected and closed, with 'Game has already ended.' and code 1000
\* unless the room is full (then 'Game room is full.' and code 1008, the
\* capacity check coming first); no session is registered after the game
\* has ended, and scores, canvas, clock and storage are unchanged.
C13_EndedRejects ==
    [][ /\ (lastOp'.op = "fetch" /\ gameOver) =>
             /\ sent' = IF Len(sessions) >= MAX_PLAYERS_PER_ROOM
                        THEN RoomFullReply(lastOp'.who)
                        ELSE GameEndedReply(lastOp'.who)
             /\ UNCHANGED << sessions, scores, canvasState, ClockVars,
                             storage >>
        /\ gameOver => SessionColors' \subseteq SessionColors ]_vars
\* a connection attempt on an ended game with a free place has been rejected
C13_Witness ==
    /\ lastOp.op = "fetch" /\ lastOp.res = "ended"
    /\ gameOver /\ Len(sessions) < MAX_PLAYERS_PER_ROOM
    /\ sent = GameEndedReply(lastOp.who)
\* C13 as stated: every connection attempt on an ended game is answered
\* with 'Game has already ended.' and closed with code 1000.
C13_AlwaysGameEnded ==
    [][ (lastOp'.op = "fetch" /\ gameOver) =>
           sent' = GameEndedReply(lastOp'.who) ]_vars


\* the broadcast a handler makes, by how it returned
BroadcastOf(op) ==
    CASE op.op = "tick" /\ op.res = "dec" -> "timerUpdate"
      [] op.op = "tick" /\ op.res = "end" -> "gameOver"
      [] op.op = "placePixel" /\ op.res = "placed" -> "pixelUpdate"
      [] op.op = "fetch" /\ op.res \in {"admitted", "started"} -> "scoreUpdate"
      [] OTHER -> "none"

\* C14: in a handler that broadcasts, the sessions deregistered are exactly
\* those whose delivery failed, every other session registered when the
\* broadcast began is sent the message and stays registered, and no error
\* message is sent to anyone.
C14_FaultIsolation ==
    [][ BroadcastOf(lastOp') # "none" =>
          LET before == IF lastOp'.op = "fetch"
                        THEN SessionColors \cup {lastOp'.who}
                        ELSE SessionColors
              removed == before \ SessionColors'
              got(c) == \E k \in 1 .. Len(sent') :
                           /\ sent'[k].to = c
                           /\ sent'[k].type = BroadcastOf(lastOp')
          IN  /\ SessionColors' \subseteq before
              /\ Cardinality(removed) = dead' - dead
              /\ \A c \in before \ removed : got(c)
              /\ \A c \in removed : ~ got(c)
              /\ \A k \in 1 .. Len(sent') : sent'[k].type # "error" ]_vars
\* the delivery of a pixelUpdate to its own sender has just failed: the
\* sender is deregistered and the other session has been sent the update
C14_Witness ==
    /\ lastOp.op = "placePixel" /\ lastOp.res = "placed"
    /\ lastOp.who \notin SessionColors
    /\ Len(sessions) = 1
    /\ SentTo(sessions[1].color, "pixelUpdate") # {}
    /\ SentTo(lastOp.who, "pixelUpdate") = {}


C16_Disconnect ==
    [][ lastOp'.op \in {"close", "error"} =>
          /\ UNCHANGED << scores, canvasState >>
          /\ lastOp'.res = "ok" =>
                /\ lastOp'.who \in SessionColors
                /\ SessionColors' = SessionColors \ {lastOp'.who}
                /\ Len(sessions') = Len(sessions) - 1
                /\ \A i \in 1 .. Len(sessions), j \in 1 .. Len(sessions') :
                      sessions[i].color = sessions'[j].color =>
                         sessions[i] = sessions'[j]
          /\ lastOp'.res = "dead" => sessions' = sessions ]_vars
\* one of two sessions has just left, with points on its colour
C16_Witness ==
    /\ lastOp.op \in {"close", "error"} /\ lastOp.res = "ok"
    /\ Len(sessions) = 1
    /\ lastOp.who \notin SessionColors
    /\ ScoreOf(scores, lastOp.who) > 0


\* C17: a close or error event that leaves the registry empty while the
\* clock is Running stops the tick and releases the keep-alive, leaves the
\* clock Running with timeLeft as it was, and writes the drained flag; a
\* Running clock whose tick is stopped keeps its timeLeft and stays
\* stopped through every step of the activation, admissions included; an
\* activation starts the tick exactly when it restores a Running clock
\* with timeLeft > 0.
C17_Drained ==
    [][ /\ ( /\ lastOp'.op \in {"close", "error"}
             /\ Len(sessions') = 0
             /\ ClockState = "Running" )
           => /\ ~ timerInterval' /\ ~ timerResolve'
              /\ ClockState' = "Running"
              /\ timeLeft' = timeLeft
              /\ storage'.gameEndedDueToEmpty = << TRUE >>
        /\ ( /\ ClockState = "Running" /\ ~ timerInterval
             /\ lastOp'.op # "activate" )
           => /\ timeLeft' = timeLeft
              /\ ~ timerInterval'
              /\ ClockState' = "Running"
        /\ lastOp'.op = "activate" =>
              timerInterval' = (ClockState' = "Running" /\ timeLeft' > 0) ]_vars
\* a session has been admitted to a drained room: the clock is Running
\* with time left and no tick
C17_Witness ==
    /\ lastOp.op = "fetch" /\ lastOp.res = "admitted"
    /\ Len(sessions) = MIN_PLAYERS_TO_START
    /\ ClockState = "Running" /\ timeLeft > 0
    /\ ~ timerInterval
    /\ storage.gameEndedDueToEmpty = << TRUE >>

\* C18: a step of an activation that empties the registry while the clock
\* is Running (a close, an error, or the failed delivery of a broadcast to
\* the last session) leaves the tick stopped.
C18_PausedWhenEmpty ==
    [][ ( /\ Len(sessions) > 0 /\ Len(sessions') = 0
          /\ lastOp'.op # "activate"
          /\ ClockState' = "Running" )
        => ~ timerInterval' ]_vars

\* C19: while the clock is Running and a session is registered, the
\* interval of the tick is live.
C19_TickLive ==
    (ClockState = "Running" /\ Len(sessions) >= 1) => timerInterval


\* The interval callback is run by the runtime's timer: as long as the
\* interval exists, its callback is eventually called.
FairSpec == Spec /\ WF_vars(timerTick)

\* C20: a clock that is Running with timeLeft = 0 eventually becomes Ended.
C20_EndsAtZero ==
    (ClockState = "Running" /\ timeLeft = 0) ~> (ClockState = "Ended")


\* the messages of a type among those the last handler sent to a session
CountTo(msgs, who, type) ==
    Cardinality({ k \in 1 .. Len(msgs) :
                    msgs[k].to = who /\ msgs[k].type = type })

\* C21: the step that ends the game stops the tick, sends every registered
\* session exactly one gameOver (winnerColor, scores), and stores
\* gameOver = true, gameStarted = false and the final canvas, scores and
\* timeLeft; once the game is over no handler of the activation broadcasts
\* a gameOver, timerUpdate or pixelUpdate.
C21_EndOnce ==
    [][ /\ (~ gameOver /\ gameOver') =>
              /\ lastOp'.op = "tick"
              /\ ~ timerInterval' /\ ~ timerResolve'
              /\ \A c \in SessionColors' :
                    /\ CountTo(sent', c, "gameOver") = 1
                    /\ \A k \in 1 .. Len(sent') :
                          sent'[k].body = [winnerColor |-> finalWinner(scores),
                                           scores |-> scores]
              /\ storage'.gameOver = << TRUE >>
              /\ storage'.gameStarted = << FALSE >>
              /\ storage'.canvasState = << canvasState' >>
              /\ storage'.scores = << scores' >>
              /\ storage'.timeLeft = << timeLeft' >>
        /\ gameOver =>
              \A k \in 1 .. Len(sent') :
                 sent'[k].type \notin {"gameOver", "timerUpdate", "pixelUpdate"}
      ]_vars
\* the game has just ended with two sessions registered
C21_Witness ==
    /\ lastOp.op = "tick" /\ lastOp.res = "end"
    /\ gameOver /\ ~ timerInterval
    /\ Len(sessions) = 2
    /\ \A i \in 1 .. 2 : CountTo(sent, sessions[i].color, "gameOver") = 1
    /\ storage.gameOver = << TRUE >>


(***************************************************************************)
(* Durability.  storage.put returns a promise: a write is issued by the    *)
(* handler and completes later, and saveState awaits each of its five puts *)
(* before it issues the next.  The specification below follows the runs in *)
(* which the object stops during the save of a placement (after any number *)
(* of its puts) and is activated again, and the end of the game with its   *)
(* writes completing in a step of their own.                               *)
(***************************************************************************)
\* the runs followed: the scores add up to MaxScoreSum at most
MaxScoreSum == 3

\* saveState cut after its k-th put
partialSave(st, cv, sc, tl, gs, go, k) ==
    [ st EXCEPT !.canvasState = IF k >= 1 THEN << cv >> ELSE @,
                !.scores = IF k >= 2 THEN << sc >> ELSE @,
                !.timeLeft = IF k >= 3 THEN << tl >> ELSE @,
                !.gameStarted = IF k >= 4 THEN << gs >> ELSE @,
                !.gameOver = IF k >= 5 THEN << go >> ELSE @ ]

\* handlePlacePixel's score update for a cell that goes from oldColor to
\* newColor
placedScores(sc, oldColor, newColor) ==
    LET dec == IF oldColor # WHITE /\ ScoreOf(sc, oldColor) # 0
               THEN ScoreSet(sc, oldColor, Max(0, ScoreOf(sc, oldColor) - 1))
               ELSE sc
    IN  ScoreSet(dec, newColor, ScoreOf(dec, newColor) + 1)

\* an accepted placement of the i-th session on the grid cell (x, y); the
\* object stops when k of saveState's puts have completed, and is
\* activated again
placeCrash(i, x, y, k) ==
    /\ i \in 1 .. Len(sessions)
    /\ SumSeq(scores) < MaxScoreSum
    /\ ~ notActive(gameStarted, gameOver)
    /\ ~ InvalidCoord(x, CANVAS_WIDTH) /\ ~ InvalidCoord(y, CANVAS_HEIGHT)
    /\ x.h \in GridKeys /\ y.h \in Rows
    /\ ~ coolingDown(now, sessions[i])
    /\ ~ sameColor(canvasState[y.h][x.h], sessions[i].color)
    /\ restoreFrom(partialSave(storage,
            [canvasState EXCEPT ![y.h][x.h] = sessions[i].color],
            placedScores(scores, canvasState[y.h][x.h], sessions[i].color),
            timeLeft, gameStarted, gameOver, k))

\* the interval callback at timeLeft = 0: endGame up to its return; the
\* two puts and saveState are issued and not yet completed
endGameIssued ==
  \E fail \in FailSets :
    /\ timerInterval
    /\ ~ (timeLeft > 0)
    /\ timerInterval' = stopTimer(timerInterval, timerResolve).timerInterval
    /\ timerResolve' = stopTimer(timerInterval, timerResolve).timerResolve
    /\ gameOver' = TRUE
    /\ gameStarted' = FALSE
    /\ sent' = broadcastSent(sessions, fail, "gameOver",
                   [winnerColor |-> finalWinner(scores), scores |-> scores])
    /\ sessions' = broadcastKeep(sessions, fail, 1)
    /\ dead' = dead + Cardinality(fail)
    /\ stale' = staleAfter(stale, sessions, fail)
    /\ lastOp' = Op("tick", "", "end")
    /\ UNCHANGED << timeLeft, storage, canvasState, scores, now, impl >>

\* the writes endGame has issued complete
endGameWritten ==
    /\ gameOver
    /\ storage.gameOver # << TRUE >>
    /\ storage' = saveState(storage, canvasState, scores, timeLeft,
                            gameStarted, gameOver)
    /\ sent' = << >>
    /\ lastOp' = Op("storage", "", "written")
    /\ UNCHANGED << canvasState, scores, timeLeft, gameStarted, gameOver,
                    timerInterval, timerResolve, sessions, dead, stale, now, impl >>

SavePuts == 5

NextCrash ==
    \/ fetch
    \/ (timeLeft > 0 /\ timerTick)
    \/ endGameIssued
    \/ endGameWritten
    \/ \E i \in 1 .. MAX_PLAYERS_PER_ROOM, p \in Payloads,
          k \in 0 .. SavePuts : placeCrash(i, p[1], p[2], k)
    \/ loadState

SpecCrash == Init /\ [][NextCrash]_vars

\* C22: as long as the writes of the end of the game have not completed,
\* the keep-alive promise of the tick is still pending.
C22_WritesBeforeIdle ==
    (gameOver /\ storage.gameOver # << TRUE >>) => timerResolve

NoFractionKeys ==
    \A y \in Rows, k \in RowKeys \ GridKeys : canvasState[y][k] = Undefined

\* C25: right after an activation, the restored canvas and scores agree:
\* the sum of the scores plus the number of unset cells is the area (for a
\* canvas that holds grid cells only).
C25_RestoreConsistent ==
    (lastOp.op = "activate" /\ NoFractionKeys) =>
        SumSeq(scores) + Cardinality(UnsetCells) = CANVAS_WIDTH * CANVAS_HEIGHT


\* the handlers that call stopTimer: the close or error listener on an
\* empty registry of a started game, and endGame
CallsStopTimer ==
    \/ /\ lastOp'.op \in {"close", "error"}
       /\ Len(sessions') = 0 /\ gameStarted
    \/ lastOp'.op = "tick" /\ lastOp'.res = "end"

\* C23: after a handler that calls stopTimer the interval handle is null
\* and the keep-alive promise is resolved and cleared; a call when both
\* are null already (a second call, or no timer was ever started in the
\* activation) leaves them null and changes nothing of the clock, the
\* canvas or the scores; the keep-alive is pending exactly while the
\* interval exists.
C23_StopTimer ==
    [][ /\ CallsStopTimer =>
             /\ ~ timerInterval' /\ ~ timerResolve'
             /\ (~ timerInterval /\ ~ timerResolve) =>
                   UNCHANGED << timerInterval, timerResolve, timeLeft,
                                gameStarted, gameOver, canvasState, scores >>
        /\ timerResolve' = timerInterval' ]_vars
\* the close listener of a socket that a broadcast had removed has run on
\* an empty registry whose tick is stopped
C23_Witness ==
    /\ lastOp.op = "close" /\ lastOp.res = "dead"
    /\ Len(sessions) = 0 /\ gameStarted
    /\ ~ timerInterval /\ ~ timerResolve


(***************************************************************************)
(* The activation in steps.  The constructor sets the fields to their      *)
(* defaults and runs loadState inside state.blockConcurrencyWhile;         *)
(* loadState awaits five storage.get calls one after the other and then    *)
(* starts the timer.  lastOp holds the position of the load: op = "load"   *)
(* and the key read last.                                                  *)
(***************************************************************************)
\* this.canvasState = null: every read of a cell gives null
NullCanvas == [ y \in Rows |-> [ k \in RowKeys |-> Null ] ]

\* state.blockConcurrencyWhile(callback): no event is delivered to the
\* object while the callback runs
blockConcurrencyWhile_off(running) == FALSE
blockConcurrencyWhile(running) == running

Loading == lastOp.op = "load"
Delivered == ~ blockConcurrencyWhile(Loading)

\* the object is evicted and constructed again: the constructor up to the
\* call of loadState
construct ==
    /\ ~ Loading
    /\ canvasState' = NullCanvas
    /\ scores' = << >>
    /\ timerInterval' = FALSE
    /\ timerResolve' = FALSE
    /\ timeLeft' = GAME_DURATION_SECONDS
    /\ gameStarted' = FALSE
    /\ gameOver' = FALSE
    /\ sessions' = << >>
    /\ dead' = 0
    /\ stale' = [stale EXCEPT !.objs = {}]
    /\ sent' = << >>
    /\ lastOp' = Op("load", "", "none")
    /\ UNCHANGED << storage, now, impl >>

\* loadState: the next storage.get and its assignment; after the last one,
\* the check that restarts the timer
loadGet ==
    /\ Loading
    /\ sent' = << >>
    /\ UNCHANGED << sessions, dead, stale, storage, now, impl >>
    /\ CASE lastOp.res = "none" ->
              /\ canvasState' = GetOr(storage.canvasState, initializeCanvas)
              /\ lastOp' = Op("load", "", "canvasState")
              /\ UNCHANGED << scores, timeLeft, gameStarted, gameOver,
                              timerInterval, timerResolve >>
         [] lastOp.res = "canvasState" ->
              /\ scores' = GetOr(storage.scores, << >>)
              /\ lastOp' = Op("load", "", "scores")
              /\ UNCHANGED << canvasState, timeLeft, gameStarted, gameOver,
                              timerInterval, timerResolve >>
         [] lastOp.res = "scores" ->
              /\ timeLeft' = GetOr(storage.timeLeft, GAME_DURATION_SECONDS)
              /\ lastOp' = Op("load", "", "timeLeft")
              /\ UNCHANGED << canvasState, scores, gameStarted, gameOver,
                              timerInterval, timerResolve >>
         [] lastOp.res = "timeLeft" ->
              /\ gameStarted' = GetOr(storage.gameStarted, FALSE)
              /\ lastOp' = Op("load", "", "gameStarted")
              /\ UNCHANGED << canvasState, scores, timeLeft, gameOver,
                              timerInterval, timerResolve >>
         [] lastOp.res = "gameStarted" ->
              /\ gameOver' = GetOr(storage.gameOver, FALSE)
              /\ IF shouldResume(gameStarted, gameOver', timeLeft, timerInterval)
                 THEN timerInterval' = TRUE /\ timerResolve' = TRUE
                 ELSE UNCHANGED << timerInterval, timerResolve >>
              /\ lastOp' = Op("activate", "", "ok")
              /\ UNCHANGED << canvasState, scores, timeLeft, gameStarted >>

NextLoad ==
    \/ (Delivered /\ fetch)
    \/ \E i \in 1 .. MAX_PLAYERS_PER_ROOM, p \in Payloads :
          (Delivered /\ onMessage(i, p[1], p[2]))
    \/ \E i \in 1 .. MAX_PLAYERS_PER_ROOM, ev \in {"close", "error"} :
          (Delivered /\ closeOrErrorHandler(i, ev))
    \/ (Delivered /\ timerTick)
    \/ construct
    \/ loadGet

SpecLoad == Init /\ [][NextLoad]_vars

\* what loadState restores from the storage
Loaded(st) ==
    /\ canvasState = GetOr(st.canvasState, initializeCanvas)
    /\ scores = GetOr(st.scores, << >>)
    /\ timeLeft = GetOr(st.timeLeft, GAME_DURATION_SECONDS)
    /\ gameStarted = GetOr(st.gameStarted, FALSE)
    /\ gameOver = GetOr(st.gameOver, FALSE)

\* C24: while the snapshot of an activation is being loaded no admission,
\* placement, tick or disconnection is applied: the only steps are those of
\* the load, and the first step of another kind starts from the state in
\* which canvas, scores, timeLeft and the two flags are all as stored.
C24_Barrier ==
    [][ /\ Loading => lastOp'.op \in {"load", "activate"}
        /\ (lastOp.op = "activate" /\ lastOp'.op \notin {"load", "activate"})
              => Loaded(storage) ]_vars
\* the load is half done: the stored canvas is read, the stored scores are
\* not yet
C24_Witness ==
    /\ Loading /\ lastOp.res = "canvasState"
    /\ storage.canvasState # << >> /\ canvasState = storage.canvasState[1]
    /\ storage.scores # << >> /\ storage.scores[1] # << >> /\ scores = << >>


(***************************************************************************)
(* The messages other than a placePixel with a payload {x, y}.             *)
(***************************************************************************)
\* text that JSON.parse rejects (or the JSON null, whose .type throws); a
\* placePixel whose payload is missing, so that the destructuring in
\* handlePlacePixel throws; a well-formed message of another type
OtherMessages == {"unparsable", "noPayload", "unknownType"}

FormatError(who) ==
    << Msg(who, "error", [message |-> "Invalid message format."]) >>

\* the message listener of the i-th session for the message m
onOtherMessage(i, m) ==
    /\ i \in 1 .. Len(sessions)
    /\ LET who == sessions[i].color
       IN  /\ sent' = CASE m = "unparsable" -> FormatError(who)
                        [] m = "unknownType" -> << >>
                        [] m = "noPayload" ->
                             IF notActive(gameStarted, gameOver)
                             THEN notActiveReply(who)
                             ELSE FormatError(who)
           /\ lastOp' = Op("message", who, m)
    /\ UNCHANGED << canvasState, scores, timeLeft, gameStarted, gameOver,
                    timerInterval, timerResolve, sessions, dead, stale, storage,
                    now, impl >>

NextMessages ==
    \/ fetch
    \/ \E i \in 1 .. MAX_PLAYERS_PER_ROOM, p \in Payloads :
          onMessage(i, p[1], p[2])
    \/ \E i \in 1 .. MAX_PLAYERS_PER_ROOM, m \in OtherMessages :
          onOtherMessage(i, m)
    \/ timerTick

SpecMessages == Init /\ [][NextMessages]_vars

\* C26: a message that cannot be parsed, or a placePixel without a usable
\* payload, is answered with the format error to its sender and to no one
\* else; a well-formed message of another type is answered with nothing;
\* neither changes canvas, scores, clock, registry or storage.
C26_Malformed ==
    [][ lastOp'.op = "message" =>
          /\ UNCHANGED << canvasState, scores, ClockVars, sessions, storage >>
          /\ sent' = IF lastOp'.res = "unknownType"
                     THEN << >>
                     ELSE FormatError(lastOp'.who) ]_vars


\* every colour a session or a score entry can have
AllColors == { Palette[i] : i \in 1 .. Len(Palette) } \cup RandomColors

\* C27: a placement by a session of a Running game, on a grid cell (x, y)
\* that does not hold the session's colour, with the cooldown elapsed, sets
\* that cell and no other to the session's colour and the session's
\* lastPlacement to now, takes 1 from the score of the colour the cell held
\* (if it was claimed) and adds 1 to the session's colour, leaves every
\* other score and session as it was, sends every session still registered
\* pixelUpdate {x, y, color, scores}, and saves the whole snapshot.
C27_Placement ==
    [][ (lastOp'.op = "placePixel" /\ ClockState = "Running") =>
        \A i \in 1 .. Len(sessions), p \in Payloads :
          ( /\ sessions[i].color = lastOp'.who
            /\ IntegerInRange(p[1], CANVAS_WIDTH)
            /\ IntegerInRange(p[2], CANVAS_HEIGHT)
            /\ now - sessions[i].lastPlacement >= COOLDOWN_MS
            /\ canvasState[p[2].h][p[1].h] # sessions[i].color
            /\ onMessage(i, p[1], p[2]) )
          => LET color == sessions[i].color
                 old == canvasState[p[2].h][p[1].h]
             IN  /\ canvasState' =
                       [canvasState EXCEPT ![p[2].h][p[1].h] = color]
                 /\ \A j \in 1 .. Len(sessions') :
                       IF sessions'[j].color = color
                       THEN sessions'[j].lastPlacement = now
                       ELSE \E h \in 1 .. Len(sessions) :
                               sessions[h] = sessions'[j]
                 /\ \A c \in AllColors :
                       ScoreOf(scores', c) =
                          ScoreOf(scores, c)
                            + (IF c = color THEN 1 ELSE 0)
                            - (IF c = old /\ old # WHITE THEN 1 ELSE 0)
                 /\ \A c \in SessionColors' :
                       \E k \in 1 .. Len(sent') :
                          sent'[k] = Msg(c, "pixelUpdate",
                                         [x |-> p[1].h, y |-> p[2].h,
                                          color |-> color, scores |-> scores'])
                 /\ storage' = saveState(storage, canvasState', scores',
                                         timeLeft', gameStarted', gameOver')
      ]_vars
\* a placement has just been applied, broadcast to both sessions and saved
C27_Witness ==
    /\ lastOp.op = "placePixel" /\ lastOp.res = "placed"
    /\ Len(sessions) = 2
    /\ \E p \in Cells : canvasState[p[1]][p[2]] = lastOp.who
    /\ \A i \in 1 .. 2 :
          /\ SentTo(sessions[i].color, "pixelUpdate") # {}
          /\ sessions[i].color = lastOp.who => sessions[i].lastPlacement = now
    /\ ScoreOf(scores, lastOp.who) > 0
    /\ storage.canvasState = << canvasState >> /\ storage.scores = << scores >>


\* C28: timeLeft is within 0 .. GAME_DURATION_SECONDS in every state; a tick
\* with timeLeft > 0 takes exactly 1 from it, sends the new value to every
\* session still registered, and saves the snapshot exactly when the new
\* value is a multiple of 10; a tick with timeLeft = 0 leaves it at 0 and
\* ends the game.
C28_Tick ==
    [][ /\ timeLeft \in 0 .. GAME_DURATION_SECONDS
        /\ timeLeft' \in 0 .. GAME_DURATION_SECONDS
        /\ lastOp'.op = "tick" =>
             IF timeLeft > 0
             THEN /\ timeLeft' = timeLeft - 1
                  /\ \A i \in 1 .. Len(sessions') :
                        \E k \in 1 .. Len(sent') :
                           sent'[k] = Msg(sessions'[i].color, "timerUpdate",
                                          [timeLeft |-> timeLeft'])
                  /\ storage' = IF timeLeft' % 10 = 0
                                THEN saveState(storage, canvasState, scores,
                                               timeLeft', gameStarted, gameOver)
                                ELSE storage
                  /\ UNCHANGED << gameStarted, gameOver >>
             ELSE /\ timeLeft' = 0
                  /\ gameOver' /\ ~gameStarted'
      ]_vars
\* a tick has just counted down to 0, told a session and saved that value
C28_Witness ==
    /\ lastOp.op = "tick" /\ lastOp.res = "dec"
    /\ timeLeft = 0
    /\ Len(sessions) > 0
    /\ \A i \in 1 .. Len(sessions) :
          SentTo(sessions[i].color, "timerUpdate") # {}
    /\ storage.timeLeft = << 0 >>


\* the Durable Object of worker.js
InitWorker == InitCommon /\ impl = "worker"
\* its connection life cycle: connects, disconnects and the timer
NextWorker ==
    \/ fetch
    \/ \E i \in 1 .. MAX_PLAYERS_PER_ROOM, ev \in {"close", "error"} :
          closeOrErrorHandler(i, ev)
    \/ closeDead
    \/ timerTick
SpecWorker == InitWorker /\ [][NextWorker]_vars

\* C29: a session is admitted with the first palette colour that no
\* session registered at that moment holds, and so the registered sessions
\* always hold pairwise distinct colours of the palette.
C29_FirstFree ==
    [][ /\ \A i, j \in 1 .. Len(sessions') :
              i # j => sessions'[i].color # sessions'[j].color
        /\ \A i \in 1 .. Len(sessions') :
              \E k \in 1 .. Len(PLAYER_COLORS) :
                 sessions'[i].color = PLAYER_COLORS[k]
        /\ (lastOp'.op = "fetch" /\ lastOp'.res \in {"admitted", "started"}) =>
              \E k \in 1 .. Len(PLAYER_COLORS) :
                 /\ PLAYER_COLORS[k] = lastOp'.who
                 /\ PLAYER_COLORS[k] \notin SessionColors
                 /\ \A h \in 1 .. (k - 1) : PLAYER_COLORS[h] \in SessionColors
      ]_vars

InitStale ==
    /\ InitRoom
    /\ stale = [kept |-> TRUE, objs |-> {}]
    /\ impl = "gameroom"

\* the message listener of a socket that broadcast has deregistered, for a
\* placePixel {x, y}, and handlePlacePixel on its session object s; every
\* send on that socket throws
staleMessage(s, x, y) ==
    /\ s \in stale.objs
    /\ LET who == s.color
       IN
       IF notActive(gameStarted, gameOver)
       THEN /\ sent' = << >>
            /\ lastOp' = Op("staleMessage", who, "notActive")
            /\ UNCHANGED << canvasState, scores, sessions, dead, stale, storage >>
       ELSE IF InvalidCoord(x, CANVAS_WIDTH) \/ InvalidCoord(y, CANVAS_HEIGHT)
       THEN /\ sent' = << >>
            /\ lastOp' = Op("staleMessage", who, "invalid")
            /\ UNCHANGED << canvasState, scores, sessions, dead, stale, storage >>
       ELSE IF coolingDown(now, s)
       THEN /\ sent' = << >>
            /\ lastOp' = Op("staleMessage", who, "cooldown")
            /\ UNCHANGED << canvasState, scores, sessions, dead, stale, storage >>
       ELSE IF y.h \notin Rows
       THEN /\ sent' = << >>
            /\ lastOp' = Op("staleMessage", who, "typeError")
            /\ UNCHANGED << canvasState, scores, sessions, dead, stale, storage >>
       ELSE LET oldColor == canvasState[y.h][x.h]
                newColor == s.color
                dec == IF oldColor # WHITE /\ ScoreOf(scores, oldColor) # 0
                       THEN ScoreSet(scores, oldColor,
                                     Max(0, ScoreOf(scores, oldColor) - 1))
                       ELSE scores
                scores1 == ScoreSet(dec, newColor, ScoreOf(dec, newColor) + 1)
                canvas1 == [canvasState EXCEPT ![y.h][x.h] = newColor]
                stale1 == [stale EXCEPT !.objs =
                             (@ \ {s}) \cup {[s EXCEPT !.lastPlacement = now]}]
            IN  IF sameColor(oldColor, newColor)
                THEN /\ sent' = << >>
                     /\ lastOp' = Op("staleMessage", who, "same")
                     /\ UNCHANGED << canvasState, scores, sessions, dead, stale,
                                     storage >>
                ELSE \E fail \in FailSets :
                     /\ canvasState' = canvas1
                     /\ scores' = scores1
                     /\ sent' = broadcastSent(sessions, fail, "pixelUpdate",
                                    [x |-> x.h, y |-> y.h, color |-> newColor,
                                     scores |-> scores1])
                     /\ sessions' = broadcastKeep(sessions, fail, 1)
                     /\ dead' = dead + Cardinality(fail)
                     /\ stale' = staleAfter(stale1, sessions, fail)
                     /\ storage' = saveState(storage, canvas1, scores1,
                                             timeLeft, gameStarted, gameOver)
                     /\ lastOp' = Op("staleMessage", who, "placed")
    /\ UNCHANGED << timeLeft, gameStarted, gameOver, timerInterval,
                    timerResolve, now, impl >>

\* the values of a session's lastPlacement: 0 or a value of Date.now()
Placements == {0} \cup { COOLDOWN_MS + k * TimeStep : k \in 0 .. MaxSteps }

\* connects, failed deliveries of the tick's broadcast, messages on the
\* deregistered sockets and their close events
NextStale ==
    \/ fetch
    \/ \E c \in AllColors, t \in Placements, p \in Payloads :
          staleMessage(Session(c, t), p[1], p[2])
    \/ closeDead
    \/ timerTick
    \/ advanceTime
SpecStale == InitStale /\ [][NextStale]_vars

\* C31: a placePixel that arrives on the socket of a deregistered session
\* changes no canvas cell and no score.
C31_RegisteredOnly ==
    [][ lastOp'.op = "staleMessage" => UNCHANGED << canvasState, scores >> ]_vars


\* the grid cells that hold the colour c
CellsOf(c) == { p \in Cells : canvasState[p[1]][p[2]] = c }

\* C32: in every reachable state the score of each colour is the number of
\* grid cells that hold that colour.
C32_PerColor ==
    \A c \in AllColors : ScoreOf(scores, c) = Cardinality(CellsOf(c))


====
